---- MODULE Spec2Model ----
(***************************************************************************)
(* OSC Query server (lib/OSCNode.js, lib/OSCQueryServer.js, Main.js):      *)
(* the address-space tree, its serializer and the HTTP GET handler.        *)
(*                                                                         *)
(* JavaScript values are tagged records [t |-> tag, v |-> payload] so that *)
(* undefined, null, numbers, strings, arrays and objects can be told apart *)
(* the way the code tells them apart (truthiness, ??, !== undefined, and   *)
(* what JSON.stringify keeps).  A path string is held as the result of     *)
(* String.split("/") on it: "/a/b" is <<"", "a", "b">>, "/" is <<"", "">>. *)
(***************************************************************************)
EXTENDS Integers, Sequences, FiniteSets, TLC

VARIABLES
    tree,   \* the OSCNode objects reachable from _root, keyed by their path
    heap,   \* the argument arrays (desc.arguments) the nodes' _args refer to
    opts,   \* OSCQueryServer._opts
    res,    \* the HTTP exchange being answered (request and response), if any
    err,    \* the exception the last API call raised to its caller
    build,              \* the file the VRChatOSCQuery class is loaded from
    subscribeToAll,     \* VRChatOSCQuery.subscribeToAll
    subscribedPaths,    \* VRChatOSCQuery.subscribedPaths
    handled,    \* the last OSC message received and whether the handler ran
    calls,      \* the calls of VRChatOSCQuery.start and stop, in call order
    http,       \* OSCQueryServer._server and the client connections it holds
    udp,        \* the node-osc servers created; the last is this.oscServer
    mdns,       \* OSCQueryServer._bonjour and _bonjourService
    prime,      \* the timers and the browse of triggerMDNSDiscovery
    log,        \* the calls made to the listeners and to mDNS, in order
    crashed     \* the process has ended on an 'error' event nobody listens to

filterVars == <<build, subscribeToAll, subscribedPaths, handled>>

lifeVars == <<calls, http, udp, mdns, prime, log, crashed>>

vars == <<tree, heap, opts, res, err, filterVars, lifeVars>>

(***************************  bounds of the model  *************************)

\* at most this many distinct argument arrays are attached to nodes at a time
MaxLists == 1

(***************************  JavaScript values  ***************************)

JSUndefined == [t |-> "undefined", v |-> 0]
JSNull == [t |-> "null", v |-> 0]
Num(n) == [t |-> "num", v |-> n]
Str(s) == [t |-> "str", v |-> s]
Bool(b) == [t |-> "bool", v |-> b]
Arr(s) == [t |-> "arr", v |-> s]
Obj(f) == [t |-> "obj", v |-> f]

\* ToBoolean
Truthy(x) ==
    CASE x.t = "undefined" -> FALSE
      [] x.t = "null" -> FALSE
      [] x.t = "num" -> x.v # 0
      [] x.t = "str" -> x.v # ""
      [] x.t = "bool" -> x.v
      [] OTHER -> TRUE

\* a || b
JSOr(a, b) == IF Truthy(a) THEN a ELSE b

\* a ?? b
Coalesce(a, b) == IF a.t \in {"undefined", "null"} THEN b ELSE a

\* o[k] on an object held as a function from its own keys
Prop(o, k) == IF k \in DOMAIN o THEN o[k] ELSE JSUndefined

\* an object literal: the keys whose value is undefined stay own keys of it
EmptyObject == [k \in {} |-> JSUndefined]

\* JSON.stringify followed by the client's JSON.parse: an object loses the
\* keys whose value is undefined, an array keeps undefined slots as null
RECURSIVE JSONstringify(_)
JSONstringify(x) ==
    CASE x.t = "obj" ->
           Obj([k \in {j \in DOMAIN x.v : x.v[j].t # "undefined"} |->
                    JSONstringify(x.v[k])])
      [] x.t = "arr" ->
           Arr([i \in 1..Len(x.v) |->
                    IF x.v[i].t = "undefined" THEN JSNull
                    ELSE JSONstringify(x.v[i])])
      [] OTHER -> x

(***************************  OSCNode.js  **********************************)

NO_VALUE == 0
READONLY == 1
WRITEONLY == 2
READWRITE == 3

\* property names every plain object inherits from Object.prototype; the
\* `in` operator of hasChild/addChild sees them on the _children object
ObjectPrototypeKeys == {"constructor"}

\* a reference held in a `node` variable: an OSCNode of the tree, or the
\* value an inherited key of _children yields (a built-in function)
NodeRef(p) == [foreign |-> FALSE, path |-> p]
Foreign == [foreign |-> TRUE, path |-> <<>>]
Root == NodeRef(<<>>)

\* new OSCNode(name, parent): every option undefined, no children
NewNode ==
    [description |-> JSUndefined, access |-> JSUndefined, tags |-> JSUndefined,
     critical |-> JSUndefined, args |-> 0]

\* Object.keys(this._children) of the node at p
childNames(t, p) ==
    {q[Len(q)] : q \in {r \in DOMAIN t : /\ Len(r) = Len(p) + 1
                                         /\ SubSeq(r, 1, Len(p)) = p}}

RECURSIVE concat(_)
concat(s) == IF s = <<>> THEN "" ELSE Head(s) \o concat(Tail(s))

RECURSIVE getTypeStringFlat(_)
getTypeStringFlat(type) ==
    IF type.t = "arr"
    THEN concat([i \in 1..Len(type.v) |-> getTypeStringFlat(type.v[i])])
    ELSE type.v

RECURSIVE getTypeString(_)
getTypeString(type) ==
    IF type.t = "arr"
    THEN "[" \o concat([i \in 1..Len(type.v) |-> getTypeString(type.v[i])]) \o "]"
    ELSE type.v

RECURSIVE serializeRange(_)
serializeRange(range) ==
    IF range.t = "arr"
    THEN Arr([i \in 1..Len(range.v) |-> serializeRange(range.v[i])])
    ELSE IF range # JSNull
         THEN Obj(("MAX" :> Prop(range.v, "max")) @@
                  ("MIN" :> Prop(range.v, "min")) @@
                  ("VALS" :> Prop(range.v, "vals")))
         ELSE JSNull

\* the path of names from the root is the node's identity here, its parent
\* is the node at Front(p)
RECURSIVE assembleFullPath(_)
assembleFullPath(p) ==
    IF p = <<>> THEN ""
    ELSE assembleFullPath(SubSeq(p, 1, Len(p) - 1)) \o "/" \o p[Len(p)]

\* allNull as it would be with a length test added: an empty array fails it
allNullOfSome(arr) == Len(arr) > 0 /\ \A i \in 1..Len(arr) : arr[i] = JSNull

allNull(arr) == \A i \in 1..Len(arr) : arr[i] = JSNull

\* the readability test of serialize with the test on WRITEONLY (2) in place
\* of the one on READWRITE (3)
isReadableOrWritable(access) == access = Num(1) \/ access = Num(2)

\* this._access == 1 || this._access == 3
isReadable(access) == access = Num(1) \/ access = Num(3)

\* the array a node's _args refers to; 0 stands for undefined
argsOf(t, h, p) == h[t[p].args]

isEmpty(t, p) == t[p].args = 0 /\ Cardinality(childNames(t, p)) = 0

isContainer(t, p) == t[p].args = 0 /\ Cardinality(childNames(t, p)) > 0

hasChild(t, p, path) == path \in childNames(t, p) \/ path \in ObjectPrototypeKeys

getChild(t, p, path) ==
    IF path \in childNames(t, p) THEN NodeRef(Append(p, path)) ELSE Foreign

\* delete this._children[path]: the child and all below it leave the tree
removeChild(t, p, path) ==
    IF hasChild(t, p, path)
    THEN [q \in {r \in DOMAIN t : ~(/\ Len(r) > Len(p)
                                    /\ SubSeq(r, 1, Len(p) + 1) = Append(p, path))}
              |-> t[q]]
    ELSE t

getOrCreateChild(t, p, path) ==
    LET t2 == IF ~hasChild(t, p, path)
              THEN t @@ (Append(p, path) :> NewNode)
              ELSE t
    IN  [tree |-> t2, node |-> getChild(t2, p, path)]

\* a setOpts that also resets this._children: the nodes below p are lost
setOptsOfNewNode(t, p, desc) ==
    [q \in {r \in DOMAIN t : ~(Len(r) > Len(p) /\ SubSeq(r, 1, Len(p)) = p)} |->
        IF q = p
        THEN [description |-> desc.description, access |-> desc.access,
              tags |-> desc.tags, critical |-> desc.critical,
              args |-> desc.arguments]
        ELSE t[q]]

\* desc is {description, access, tags, critical, arguments}; arguments is
\* kept by reference (args is the id of the array in the heap, 0 undefined)
setOpts(t, p, desc) ==
    [t EXCEPT ![p] = [description |-> desc.description, access |-> desc.access,
                      tags |-> desc.tags, critical |-> desc.critical,
                      args |-> desc.arguments]]

RECURSIVE serialize(_, _, _)
serialize(t, h, p) ==
    LET full_path == assembleFullPath(p)
        n == t[p]
        kids == childNames(t, p)
        args == argsOf(t, h, p)
        idx == IF n.args = 0 THEN {} ELSE 1..Len(args)
        arg_types == concat([i \in idx |-> getTypeString(args[i].type)])
        arg_values == [i \in idx |-> Coalesce(args[i].value, JSNull)]
        arg_ranges == [i \in idx |-> Coalesce(args[i].range, JSNull)]
        arg_clipmodes == [i \in idx |-> Coalesce(args[i].clipmode, JSNull)]
        FULL_PATH == "FULL_PATH" :> JSOr(Str(full_path), Str("/"))
        DESCRIPTION == IF Truthy(n.description)
                       THEN "DESCRIPTION" :> n.description ELSE EmptyObject
        ACCESS == IF n.access # JSUndefined THEN "ACCESS" :> n.access
                  ELSE IF isContainer(t, p) THEN "ACCESS" :> Num(NO_VALUE)
                  ELSE EmptyObject
        TAGS == IF Truthy(n.tags) THEN "TAGS" :> n.tags ELSE EmptyObject
        CRITICAL == IF n.critical # JSUndefined
                    THEN "CRITICAL" :> n.critical ELSE EmptyObject
        CONTENTS == IF Cardinality(kids) > 0
                    THEN "CONTENTS" :>
                           Obj([name \in kids |-> serialize(t, h, Append(p, name))])
                    ELSE EmptyObject
        TYPE == IF n.args # 0 THEN "TYPE" :> Str(arg_types) ELSE EmptyObject
        RANGE == IF n.args # 0 /\ ~allNull(arg_ranges)
                 THEN "RANGE" :>
                        Arr([i \in idx |-> IF Truthy(arg_ranges[i])
                                           THEN serializeRange(arg_ranges[i])
                                           ELSE JSNull])
                 ELSE EmptyObject
        CLIPMODE == IF n.args # 0 /\ ~allNull(arg_clipmodes)
                    THEN "CLIPMODE" :> Arr(arg_clipmodes) ELSE EmptyObject
        VALUE == IF /\ n.args # 0
                    /\ n.access # JSUndefined
                    /\ ~allNull(arg_values)
                    /\ isReadable(n.access)
                 THEN "VALUE" :> Arr(arg_values) ELSE EmptyObject
    IN  Obj(FULL_PATH @@ DESCRIPTION @@ ACCESS @@ TAGS @@ CRITICAL @@ CONTENTS @@
            TYPE @@ RANGE @@ CLIPMODE @@ VALUE)

(***************************  OSCQueryServer.js  ***************************)

EXTENSIONS ==
    Obj([k \in {"ACCESS", "VALUE", "RANGE", "DESCRIPTION", "TAGS", "CRITICAL",
                "CLIPMODE"} |-> Bool(TRUE)])

VALID_ATTRIBUTES ==
    {"FULL_PATH", "CONTENTS", "TYPE", "ACCESS", "RANGE", "DESCRIPTION", "TAGS",
     "CRITICAL", "CLIPMODE", "VALUE", "HOST_INFO"}

\* path.split("/").filter(p => p !== "") on a path held as its split
\* path.split("/") with the empty segments left in
splitOnly(path) == path

path_split(path) == SelectSeq(path, LAMBDA s : s # "")

\* a response: what res.statusCode / res.write / res.end left for the client.
\* threw is an exception leaving the request listener (no response is sent)
NoBody == [t |-> "empty", v |-> 0]
Response(status, body) == [status |-> status, body |-> body, threw |-> FALSE]
Thrown == [status |-> 0, body |-> NoBody, threw |-> TRUE]

\* res.statusCode is 200 unless the handler sets it
respondJson(json) == Response(200, JSONstringify(json))

\* new URL(req.url, `http://${req.headers.host}`) for an origin-form target.
\* A target that begins with "//" is a scheme-relative reference: the slashes
\* are skipped, the next segment is the host and the rest the path; with no
\* host the constructor throws ERR_INVALID_URL.  search is <<>> or <<"?", q>>.
RECURSIVE dropEmpty(_)
dropEmpty(s) == IF s # <<>> /\ Head(s) = "" THEN dropEmpty(Tail(s)) ELSE s

URL(url) ==
    IF Len(url.path) >= 3 /\ url.path[2] = ""
    THEN LET rest == dropEmpty(SubSeq(url.path, 3, Len(url.path)))
         IN  IF rest = <<>>
             THEN [ok |-> FALSE, pathname |-> <<>>, search |-> url.search]
             ELSE [ok |-> TRUE,
                   pathname |-> IF Len(rest) = 1 THEN <<"", "">>
                                ELSE <<"">> \o Tail(rest),
                   search |-> url.search]
    ELSE [ok |-> TRUE, pathname |-> url.path, search |-> url.search]

\* the descent of _getNodeForPath (and, line for line, of _handleGet):
\* found = FALSE is the missing child, threw is node.hasChild called on a
\* value that is no OSCNode
RECURSIVE descend(_, _, _)
descend(t, node, comps) ==
    IF comps = <<>> THEN [found |-> TRUE, threw |-> FALSE, node |-> node]
    ELSE IF node.foreign THEN [found |-> FALSE, threw |-> TRUE, node |-> node]
    ELSE IF hasChild(t, node.path, Head(comps))
         THEN descend(t, getChild(t, node.path, Head(comps)), Tail(comps))
         ELSE [found |-> FALSE, threw |-> FALSE, node |-> node]

getNodeForPath(t, path) == descend(t, Root, path_split(path))

hostInfo(o) ==
    Obj(("NAME" :> o.oscQueryHostName) @@
        ("EXTENSIONS" :> EXTENSIONS) @@
        ("OSC_IP" :> JSOr(o.oscIp, JSOr(o.bindAddress, Str("0.0.0.0")))) @@
        ("OSC_PORT" :> JSOr(o.oscPort, o.httpPort)) @@
        ("OSC_TRANSPORT" :> JSOr(o.oscTransport, Str("UDP"))))

\* query is "" where the code has null (no search part)
handleGet(t, h, o, url) ==
    LET query == IF Len(url.search) > 0 THEN url.search[2] ELSE ""
        w == descend(t, Root, path_split(url.pathname))
        serialized == serialize(t, h, w.node.path)
        access == Prop(serialized.v, "ACCESS")
    IN  IF query # "" /\ query \notin VALID_ATTRIBUTES THEN Response(400, NoBody)
        ELSE IF query = "HOST_INFO" THEN respondJson(hostInfo(o))
        ELSE IF w.threw THEN Thrown
        ELSE IF ~w.found THEN Response(404, NoBody)
        ELSE IF w.node.foreign THEN Thrown
        ELSE IF query = "" THEN respondJson(serialized)
        ELSE IF /\ access # JSUndefined
                /\ (access = Num(0) \/ access = Num(2))
                /\ query = "VALUE"
             THEN Response(204, NoBody)
             ELSE respondJson(Obj(query :> Prop(serialized.v, query)))

httpHandler(t, h, o, req) ==
    IF req.method # "GET" THEN Response(400, NoBody)
    ELSE LET url == URL(req.url)
         IN  IF ~url.ok THEN Thrown ELSE handleGet(t, h, o, url)

\* the argument arrays in use: those some node's _args refers to
liveLists(t) == {t[p].args : p \in DOMAIN t} \ {0}

\* arrays no node refers to any more are dropped from the heap
collect(t, h) == [i \in (DOMAIN h \cap liveLists(t)) |-> h[i]]

\* a place for a new array literal once node p has let go of its own
freeIds(t, h, p) ==
    {i \in 1..MaxLists :
        i \notin {t[q].args : q \in {r \in DOMAIN t : r # p}}}

\* params.arguments is undefined, a new array literal (kind "new", list), or
\* the array object that was given to the node at `of` (kind "same")
argumentsRef(t, h, p, arguments) ==
    CASE arguments.kind = "undefined" -> 0
      [] arguments.kind = "same" -> t[arguments.of].args
      [] OTHER -> CHOOSE i \in freeIds(t, h, p) : \A j \in freeIds(t, h, p) : i <= j

\* the loop of addMethod: stops with threw when getOrCreateChild is called
\* on a value that is no OSCNode
RECURSIVE createPath(_, _, _)
createPath(t, node, comps) ==
    IF comps = <<>> THEN [tree |-> t, node |-> node, threw |-> FALSE]
    ELSE IF node.foreign THEN [tree |-> t, node |-> node, threw |-> TRUE]
    ELSE LET c == getOrCreateChild(t, node.path, Head(comps))
         IN  createPath(c.tree, c.node, Tail(comps))

\* the result of a tree-API call: the tree and heap it leaves, and the
\* exception it raises ("none" when it returns)
Outcome(t, h, e) == [tree |-> t, heap |-> collect(t, h), err |-> e]

addMethod(t, h, path, params) ==
    LET w == createPath(t, Root, path_split(path))
        p == w.node.path
        id == argumentsRef(w.tree, h, p, params.arguments)
        h2 == IF params.arguments.kind = "new"
              THEN (id :> params.arguments.list) @@ [i \in DOMAIN h \ {id} |-> h[i]]
              ELSE h
        desc == [description |-> params.description, access |-> params.access,
                 tags |-> params.tags, critical |-> params.critical,
                 arguments |-> id]
    IN  IF w.threw \/ w.node.foreign THEN Outcome(w.tree, h, "TypeError")
        ELSE Outcome(setOpts(w.tree, p, desc), h2, "none")

\* {} as a desc: every option undefined
EmptyDesc ==
    [description |-> JSUndefined, access |-> JSUndefined, tags |-> JSUndefined,
     critical |-> JSUndefined, arguments |-> 0]

\* a cleanup that removes the node at p alone and leaves its ancestors
removeEmptyOnce(t, p) ==
    IF p # <<>> /\ isEmpty(t, p)
    THEN removeChild(t, SubSeq(p, 1, Len(p) - 1), p[Len(p)])
    ELSE t

\* the while loop of removeMethod, from the node at p upwards
RECURSIVE removeEmpty(_, _)
removeEmpty(t, p) ==
    IF p # <<>> /\ isEmpty(t, p)
    THEN removeEmpty(removeChild(t, SubSeq(p, 1, Len(p) - 1), p[Len(p)]),
                     SubSeq(p, 1, Len(p) - 1))
    ELSE t

removeMethod(t, h, path) ==
    LET w == getNodeForPath(t, path)
    IN  IF w.threw THEN Outcome(t, h, "TypeError")
        ELSE IF ~w.found THEN Outcome(t, h, "none")
        ELSE IF w.node.foreign THEN Outcome(t, h, "TypeError")
        ELSE Outcome(removeEmpty(setOpts(t, w.node.path, EmptyDesc), w.node.path),
                     h, "none")

\* OSCNode.setValue / unsetValue / getValue share the guard; a negative
\* index passes it and reads this._args[-1], which is undefined
IndexError == "Argument index out of range"

nodeSetValue(t, h, p, arg_index, value) ==
    IF t[p].args = 0 \/ arg_index >= Len(argsOf(t, h, p))
    THEN Outcome(t, h, IndexError)
    ELSE IF arg_index < 0 THEN Outcome(t, h, "TypeError")
    ELSE Outcome(t, [h EXCEPT ![t[p].args][arg_index + 1].value = value], "none")

\* delete this._args[arg_index].value
nodeUnsetValue(t, h, p, arg_index) ==
    IF t[p].args = 0 \/ arg_index >= Len(argsOf(t, h, p))
    THEN Outcome(t, h, IndexError)
    ELSE IF arg_index < 0 THEN Outcome(t, h, "TypeError")
    ELSE Outcome(t, [h EXCEPT ![t[p].args][arg_index + 1].value = JSUndefined],
                 "none")

\* OSCNode.getValue: null when the guard fails, else this._args[i].value;
\* for a negative index this._args[i] is undefined and the read throws
nodeGetValue(t, h, p, arg_index) ==
    IF t[p].args = 0 \/ arg_index >= Len(argsOf(t, h, p))
    THEN [threw |-> FALSE, value |-> JSNull]
    ELSE IF arg_index < 0 THEN [threw |-> TRUE, value |-> JSUndefined]
    ELSE [threw |-> FALSE, value |-> argsOf(t, h, p)[arg_index + 1].value]

setValue(t, h, path, arg_index, value) ==
    LET w == getNodeForPath(t, path)
    IN  IF w.threw THEN Outcome(t, h, "TypeError")
        ELSE IF ~w.found THEN Outcome(t, h, "none")
        ELSE IF w.node.foreign THEN Outcome(t, h, "TypeError")
        ELSE nodeSetValue(t, h, w.node.path, arg_index, value)

unsetValue(t, h, path, arg_index) ==
    LET w == getNodeForPath(t, path)
    IN  IF w.threw THEN Outcome(t, h, "TypeError")
        ELSE IF ~w.found THEN Outcome(t, h, "none")
        ELSE IF w.node.foreign THEN Outcome(t, h, "TypeError")
        ELSE nodeUnsetValue(t, h, w.node.path, arg_index)

(***************************  subscription filter  *************************)

\* String.prototype.startsWith, endsWith, includes on strings
startsWith(s, prefix) ==
    Len(prefix) <= Len(s) /\ SubSeq(s, 1, Len(prefix)) = prefix

endsWith(s, suffix) ==
    Len(suffix) <= Len(s) /\ SubSeq(s, Len(s) - Len(suffix) + 1, Len(s)) = suffix

\* the positions (from 0) at which sub occurs in s
occurrences(s, sub) ==
    {i \in 0..(Len(s) - Len(sub)) : SubSeq(s, i + 1, i + Len(sub)) = sub}

includes(s, sub) == occurrences(s, sub) # {}

\* String.prototype.indexOf: the first position, -1 when there is none
indexOf(s, sub) ==
    IF includes(s, sub)
    THEN CHOOSE i \in occurrences(s, sub) : \A j \in occurrences(s, sub) : i <= j
    ELSE -1

\* s.split(sep) for a non-empty separator: the pieces between occurrences
RECURSIVE split(_, _)
split(s, sep) ==
    IF ~includes(s, sep) THEN <<s>>
    ELSE <<SubSeq(s, 1, indexOf(s, sep))>>
         \o split(SubSeq(s, indexOf(s, sep) + Len(sep) + 1, Len(s)), sep)

\* s.replace(sub, "") for a string sub: the first occurrence is taken out
removeFirst(s, sub) ==
    IF ~includes(s, sub) THEN s
    ELSE SubSeq(s, 1, indexOf(s, sub))
         \o SubSeq(s, indexOf(s, sub) + Len(sub) + 1, Len(s))

\* pattern.split('(!?')[0]
basePattern(pattern) == split(pattern, "(!?")[1]

\* pattern.split('(!?')[1].replace(')', '')
excludePattern(pattern) == removeFirst(split(pattern, "(!?")[2], ")")

pathMatches(address, pattern) ==
    IF pattern = address THEN TRUE
    ELSE IF /\ includes(pattern, "(!?")
            /\ startsWith(address, basePattern(pattern))
            /\ ~includes(address, excludePattern(pattern))
         THEN TRUE
    ELSE IF endsWith(pattern, "*")
         THEN startsWith(address, SubSeq(pattern, 1, Len(pattern) - 1))
    ELSE FALSE

\* a filter in which every subscribed path has to match
shouldProcessIfAllMatch(all, paths, address) ==
    IF all THEN TRUE
    ELSE \A subscribedPath \in paths : pathMatches(address, subscribedPath)

shouldProcessMessage(all, paths, address) ==
    IF all THEN TRUE
    ELSE \E subscribedPath \in paths : pathMatches(address, subscribedPath)

\* the filter fields as a method leaves them
Filter(all, paths) == [subscribeToAll |-> all, subscribedPaths |-> paths]

subscribe(all, paths, path) == Filter(FALSE, paths \cup {path})

unsubscribeOnly(all, paths, path) == Filter(all, paths \ {path})

unsubscribe(all, paths, path) ==
    IF paths \ {path} = {} THEN Filter(TRUE, {}) ELSE Filter(all, paths \ {path})

subscribeToAllPaths(all, paths) == Filter(TRUE, {})

(***************************  inputs  **************************************)

\* the paths the tree API is called with: "/", "", "/a", "/a/b", "a//b/",
\* "/constructor", "/a/constructor"
ApiPaths ==
    {<<"", "">>, <<"">>, <<"", "a">>, <<"", "a", "b">>, <<"a", "", "b", "">>,
     <<"", "constructor">>, <<"", "a", "constructor">>}

\* an argument definition {type, range, clipmode}; value is absent until set
Argument(type, range, clipmode) ==
    [type |-> type, value |-> JSUndefined, range |-> range, clipmode |-> clipmode]

\* [{type: "s"}, {type: "T"}]                       (Main.js, /chatbox/input)
ArgsStringTrue ==
    <<Argument(Str("s"), JSUndefined, JSUndefined),
      Argument(Str("T"), JSUndefined, JSUndefined)>>

\* [{type: "f", range: {min: 0, max: 1}, clipmode: "both"}, {type: ["i", ["f", "s"]]}]
ArgsFloatNested ==
    <<Argument(Str("f"), Obj(("min" :> Num(0)) @@ ("max" :> Num(1))), Str("both")),
      Argument(Arr(<<Str("i"), Arr(<<Str("f"), Str("s")>>)>>), JSUndefined,
               JSUndefined)>>

NewArguments(list) == [kind |-> "new", list |-> list, of |-> <<>>]
NoArguments == [kind |-> "undefined", list |-> <<>>, of |-> <<>>]
SameArguments(p) == [kind |-> "same", list |-> <<>>, of |-> p]

\* the params objects addMethod is called with
ChatboxInput ==
    [description |-> Str("VRChat Chatbox Input"), access |-> Num(WRITEONLY),
     tags |-> JSUndefined, critical |-> JSUndefined,
     arguments |-> NewArguments(ArgsStringTrue)]

AvatarParameters ==
    [description |-> Str("VRChat Avatar Parameters"), access |-> Num(WRITEONLY),
     tags |-> JSUndefined, critical |-> JSUndefined, arguments |-> NoArguments]

Volume ==
    [description |-> JSUndefined, access |-> Num(READWRITE),
     tags |-> Arr(<<Str("audio")>>), critical |-> Bool(FALSE),
     arguments |-> NewArguments(ArgsFloatNested)]

Status ==
    [description |-> Str("Application status message"), access |-> Num(READONLY),
     tags |-> JSUndefined, critical |-> JSUndefined,
     arguments |-> NewArguments(ArgsStringTrue)]

NoArgs ==
    [description |-> JSUndefined, access |-> JSUndefined,
     tags |-> JSUndefined, critical |-> JSUndefined,
     arguments |-> NewArguments(<<>>)]

Params == {ChatboxInput, AvatarParameters, Volume, Status, NoArgs}

\* the same params object passed to addMethod once more: the node at q has
\* its options and its arguments array
SameParams(t, q) ==
    [description |-> t[q].description, access |-> t[q].access,
     tags |-> t[q].tags, critical |-> t[q].critical,
     arguments |-> SameArguments(q)]

Indices == {-1, 0, 1, 2}

Values == {Num(1), JSNull}

\* request targets "/", "/a", "/a/b", "/b", "/constructor", "//"
Targets ==
    {<<"", "">>, <<"", "a">>, <<"", "a", "b">>, <<"", "b">>,
     <<"", "constructor">>, <<"", "", "">>}

Searches == {<<>>} \cup {<<"?", q>> : q \in VALID_ATTRIBUTES \cup {"HELLO"}}

Requests ==
    {[method |-> "GET", url |-> [path |-> p, search |-> q]] :
        p \in Targets, q \in Searches}
    \cup {[method |-> "POST", url |-> [path |-> p, search |-> q]] :
        p \in Targets, q \in {<<>>, <<"?", "HELLO">>}}

\* the options Main.js constructs the server with
MainOpts ==
    [httpPort |-> Num(8080), oscPort |-> Num(9000),
     oscQueryHostName |-> Str("OSC-Query-JS"), serviceName |-> Str("OSC-Query-JS"),
     rootDescription |-> Str("OSC-Query-JS - VRChat OSC Query Server"),
     oscTransport |-> Str("UDP"), oscIp |-> JSUndefined,
     bindAddress |-> JSUndefined]

(***************************  state machine  *******************************)

NoRes == [pending |-> FALSE]

Idle == ~res.pending /\ err = "none"

\* new OSCQueryServer(opts)
Constructed(o) ==
    /\ opts = o
    /\ tree = (<<>> :> [description |-> JSOr(o.rootDescription, Str("root node")),
                        access |-> Num(NO_VALUE), tags |-> JSUndefined,
                        critical |-> JSUndefined, args |-> 0])
    /\ heap = [i \in {} |-> <<>>]
    /\ res = NoRes
    /\ err = "none"

\* no message received yet
NoMessage == [received |-> FALSE]

\* the fields new VRChatOSCQuery(appName) gives the filter
FilterConstructed(b) ==
    /\ build = b
    /\ subscribedPaths = {}
    /\ subscribeToAll = TRUE
    /\ handled = NoMessage

\* the servers and the mDNS handles as the two constructors leave them
LifeConstructed ==
    /\ calls = <<>>
    /\ http = [state |-> "idle", conns |-> 0]
    /\ udp = <<>>
    /\ mdns = [service |-> "null", records |-> 0, published |-> 0,
               destroyed |-> FALSE]
    /\ prime = [timers |-> 0, browsers |-> 0, teardowns |-> 0]
    /\ log = <<>>
    /\ crashed = FALSE

Init == Constructed(MainOpts) /\ FilterConstructed("Main.js") /\ LifeConstructed

Apply(out) ==
    /\ tree' = out.tree
    /\ heap' = out.heap
    /\ err' = out.err
    /\ UNCHANGED <<opts, res, filterVars, lifeVars>>

AddMethod(path, params) ==
    /\ Idle
    /\ LET w == createPath(tree, Root, path_split(path))
       IN  params.arguments.kind = "new" /\ ~w.threw /\ ~w.node.foreign
               => freeIds(w.tree, heap, w.node.path) # {}
    /\ Apply(addMethod(tree, heap, path, params))

RemoveMethod(path) ==
    /\ Idle
    /\ Apply(removeMethod(tree, heap, path))

SetValue(path, arg_index, value) ==
    /\ Idle
    /\ Apply(setValue(tree, heap, path, arg_index, value))

UnsetValue(path, arg_index) ==
    /\ Idle
    /\ Apply(unsetValue(tree, heap, path, arg_index))

\* a request listener that gives way to a setValue on the node it serializes
\* before the response is written
HttpRequestInterleaved(req) ==
    /\ Idle
    /\ res' = [pending |-> TRUE, req |-> req] @@ httpHandler(tree, heap, opts, req)
    /\ \E path \in ApiPaths, i \in Indices, v \in Values :
           LET out == setValue(tree, heap, path, i, v)
           IN  out.err = "none" /\ tree' = out.tree /\ heap' = out.heap
    /\ UNCHANGED <<opts, err, filterVars, lifeVars>>

\* an HTTP request arrives and the request listener runs to its end
HttpRequest(req) ==
    /\ Idle
    /\ res' = [pending |-> TRUE, req |-> req] @@ httpHandler(tree, heap, opts, req)
    /\ UNCHANGED <<tree, heap, opts, err, filterVars, lifeVars>>

\* the client has its response
ResponseSent ==
    /\ res.pending
    /\ ~res.threw
    /\ res' = NoRes
    /\ UNCHANGED <<tree, heap, opts, err, filterVars, lifeVars>>

\* the caller of the tree API has caught the exception
Caught ==
    /\ err # "none"
    /\ err' = "none"
    /\ UNCHANGED <<tree, heap, opts, res, filterVars, lifeVars>>

Next ==
    \/ \E path \in ApiPaths, params \in Params : AddMethod(path, params)
    \/ \E path \in ApiPaths, q \in {r \in DOMAIN tree : tree[r].args # 0} :
           AddMethod(path, SameParams(tree, q))
    \/ \E path \in ApiPaths : RemoveMethod(path)
    \/ \E path \in ApiPaths, i \in Indices, v \in Values : SetValue(path, i, v)
    \/ \E path \in ApiPaths, i \in Indices : UnsetValue(path, i)
    \/ \E req \in Requests : HttpRequest(req)
    \/ ResponseSent
    \/ Caught

Spec == Init /\ [][Next]_vars

(***************************  HOST_INFO under every configuration  *********)

\* the option objects the server may be constructed with: each option given
\* or left out
Configs ==
    [httpPort : {JSUndefined, Num(8080)},
     oscPort : {JSUndefined, Num(9000)},
     oscQueryHostName : {JSUndefined, Str("MyApp")},
     serviceName : {JSUndefined},
     rootDescription : {JSUndefined},
     oscTransport : {JSUndefined, Str("TCP")},
     oscIp : {JSUndefined, Str("127.0.0.1")},
     bindAddress : {JSUndefined, Str("192.168.0.2")}]

\* the port portfinder.getPortAsync() finds
FoundPort == Num(8000)

\* start() up to the moment the HTTP server listens: a missing httpPort is
\* filled in before any request can arrive
start(o) == [o EXCEPT !.httpPort = IF ~Truthy(o.httpPort) THEN FoundPort ELSE @]

\* the object start() returns once the HTTP server listens; o is the
\* options object after start(o)
startHostInfo(o) ==
    [name |-> o.oscQueryHostName,
     extensions |-> EXTENSIONS,
     oscIp |-> JSOr(o.oscIp, JSOr(o.bindAddress, Str("0.0.0.0"))),
     oscPort |-> JSOr(o.oscPort, o.httpPort),
     oscTransport |-> JSOr(o.oscTransport, Str("UDP"))]

InitHostInfo ==
    /\ \E o \in Configs : Constructed(start(o))
    /\ FilterConstructed("Main.js")
    /\ LifeConstructed

NextHostInfo ==
    \/ \E req \in Requests : HttpRequest(req)
    \/ ResponseSent

SpecHostInfo == InitHostInfo /\ [][NextHostInfo]_vars

(***************  the tree API on a tree with siblings  ********************)

\* "/", "/a", "/b", "/a/b"
FramePaths == {<<"", "">>, <<"", "a">>, <<"", "b">>, <<"", "a", "b">>}

FrameParams == {AvatarParameters, Volume, Status}

FrameIndices == {0, 2}

\* the params objects addMethod can be called with in a state: the fresh
\* ones and the ones already passed for a node with arguments
ParamsIn(t, fresh) ==
    fresh \cup {SameParams(t, q) : q \in {r \in DOMAIN t : t[r].args # 0}}

NextFrame ==
    \/ \E path \in FramePaths, params \in ParamsIn(tree, FrameParams) :
           AddMethod(path, params)
    \/ \E path \in FramePaths : RemoveMethod(path)
    \/ \E path \in FramePaths, i \in FrameIndices : SetValue(path, i, Num(1))
    \/ \E path \in FramePaths, i \in FrameIndices : UnsetValue(path, i)
    \/ Caught

SpecFrame == Init /\ [][NextFrame]_vars

(***************  the subscription filter of VRChatOSCQuery  ***************)

\* the two files that define the class VRChatOSCQuery
Builds == {"Main.js", "part_000"}

Patterns ==
    {"/avatar/parameters/*", "/avatar/parameters/(!?vrcft)", "/input/*",
     "/chatbox/input", "/avatar/parameters/(!?vrcft)/eye"}

Addresses ==
    {"/avatar/parameters/vrcft/eye", "/avatar/parameters/vrcft/mouth",
     "/avatar/parameters/mood", "/input/Jump", "/chatbox/input",
     "/tracking/head"}

\* a call of the filter API returns: the fields it leaves
Returns(f) ==
    /\ subscribeToAll' = f.subscribeToAll
    /\ subscribedPaths' = f.subscribedPaths
    /\ err' = "none"
    /\ UNCHANGED <<tree, heap, opts, res, build, handled, lifeVars>>

\* a call of the filter API raises a TypeError before it changes anything
Throws ==
    /\ err' = "TypeError"
    /\ UNCHANGED <<tree, heap, opts, res, filterVars, lifeVars>>

Subscribe(path) ==
    /\ Idle
    /\ Returns(subscribe(subscribeToAll, subscribedPaths, path))

Unsubscribe(path) ==
    /\ Idle
    /\ Returns(unsubscribe(subscribeToAll, subscribedPaths, path))

\* vrchat.subscribeToAllPaths(): a method of Main.js, undefined in part_000
SubscribeToAllPaths ==
    /\ Idle
    /\ IF build = "Main.js"
       THEN Returns(subscribeToAllPaths(subscribeToAll, subscribedPaths))
       ELSE Throws

\* vrchat.subscribeToAll(): the constructor has assigned a boolean to the
\* property of that name, which hides the method part_000 defines, and
\* Main.js defines no such method
SubscribeToAll ==
    /\ Idle
    /\ Throws

\* the 'message' callback of the OSC server
Message(address) ==
    /\ Idle
    /\ handled' = [received |-> TRUE, address |-> address,
                   called |-> shouldProcessMessage(subscribeToAll,
                                                   subscribedPaths, address)]
    /\ UNCHANGED <<tree, heap, opts, res, err, build, subscribeToAll,
                   subscribedPaths, lifeVars>>

InitFilter ==
    /\ Constructed(MainOpts)
    /\ \E b \in Builds : FilterConstructed(b)
    /\ LifeConstructed

NextFilter ==
    \/ \E path \in Patterns : Subscribe(path)
    \/ \E path \in Patterns : Unsubscribe(path)
    \/ SubscribeToAllPaths
    \/ SubscribeToAll
    \/ \E address \in Addresses : Message(address)
    \/ Caught

SpecFilter == InitFilter /\ [][NextFilter]_vars

(***************  start and stop of VRChatOSCQuery  ************************)

\* at most this many calls of start and stop are made in a run
MaxCalls == 2

\* the params of addMethod('/input', ...) in setupOSCQueryEndpoints
InputControls ==
    [description |-> Str("VRChat Input Controls"), access |-> Num(WRITEONLY),
     tags |-> JSUndefined, critical |-> JSUndefined, arguments |-> NoArguments]

\* the three addMethod calls of setupOSCQueryEndpoints, one after the other
setupOSCQueryEndpoints(t, h) ==
    LET a == addMethod(t, h, <<"", "avatar", "parameters">>, AvatarParameters)
        b == addMethod(a.tree, a.heap, <<"", "chatbox", "input">>, ChatboxInput)
    IN  addMethod(b.tree, b.heap, <<"", "input">>, InputControls)

\* the state of the orchestrator as its calls show it: Init before any call,
\* Starting while a start has not returned, Stopping while a stop has not
\* returned, else Running or Stopped after the call that returned last
Phase(cs) ==
    IF cs = <<>> THEN "Init"
    ELSE IF \E i \in DOMAIN cs : cs[i].op = "stop" /\ cs[i].pc # "returned"
         THEN "Stopping"
    ELSE IF \E i \in DOMAIN cs : cs[i].op = "start" /\ cs[i].pc # "returned"
         THEN "Starting"
    ELSE IF cs[Len(cs)].op = "start" THEN "Running"
    ELSE "Stopped"

\* no step is taken once the process has ended
Alive == ~crashed /\ ~res.pending /\ err = "none"

\* the continuation of start after `await this.oscQueryServer.start()`:
\* setupOSCServer() and the setTimeout of the discovery trigger
Resumed(c) == [c EXCEPT !.pc = "returned"]

\* vrchat.start() up to its first await: setupOSCQueryEndpoints(), then
\* OSCQueryServer.start() with this._server.listen(...) and
\* this._bonjour.publish(...).  listen throws when the server is listening
\* already; with an earlier listen still waiting for its address lookup
\* (joins) it may throw or be served by the same bind.  publish may throw.
\* An exception ends in the catch of start, which logs it and returns.
StartCalled(joins, publishThrows) ==
    /\ Alive
    /\ Len(calls) < MaxCalls
    /\ LET out == setupOSCQueryEndpoints(tree, heap)
           listenThrows == http.state = "listening" \/ (http.state = "lookup" /\ ~joins)
           threw == listenThrows \/ publishThrows
       IN  /\ tree' = out.tree
           /\ heap' = out.heap
           /\ http' = [http EXCEPT !.state = IF @ = "idle" THEN "lookup" ELSE @]
           /\ mdns' = IF publishThrows THEN mdns
                      ELSE [mdns EXCEPT !.service = "published",
                                        !.records = @ + 1, !.published = @ + 1]
           /\ calls' = Append(calls,
                  [op |-> "start", at |-> Phase(calls),
                   pc |-> IF threw THEN "returned" ELSE "awaitListen",
                   caught |-> threw, mdnsError |-> publishThrows])
           /\ log' = log \o <<"register">>
                         \o (IF listenThrows THEN <<>> ELSE <<"http.listen">>)
                         \o (IF publishThrows THEN <<>> ELSE <<"mdns.publish">>)
    /\ UNCHANGED <<opts, res, err, filterVars, udp, prime, crashed>>

\* the starts that wait for the 'listening' event
Waiting == {i \in DOMAIN calls : calls[i].op = "start" /\ calls[i].pc = "awaitListen"}

\* the socket of a node-osc server and the call of start that created it
Socket(state, by) == [state |-> state, by |-> by]

\* the sockets setupOSCServer creates, one for each start that resumes
RECURSIVE NewSockets(_)
NewSockets(is) ==
    IF is = {} THEN <<>>
    ELSE LET i == CHOOSE j \in is : \A k \in is : j <= k
         IN  <<Socket("binding", i)>> \o NewSockets(is \ {i})

RECURSIVE Repeat(_, _)
Repeat(es, n) == IF n = 0 THEN <<>> ELSE es \o Repeat(es, n - 1)

\* the HTTP server is bound and emits 'listening': every waiting start
\* resumes, runs setupOSCServer() and schedules the discovery trigger
HttpListening ==
    /\ Alive
    /\ http.state = "lookup"
    /\ http' = [http EXCEPT !.state = "listening"]
    /\ calls' = [i \in DOMAIN calls |->
                    IF i \in Waiting THEN Resumed(calls[i]) ELSE calls[i]]
    /\ udp' = udp \o NewSockets(Waiting)
    /\ prime' = [prime EXCEPT !.timers = @ + Cardinality(Waiting)]
    /\ log' = log \o <<"http.listening">>
                  \o Repeat(<<"udp.listen", "prime.scheduled">>, Cardinality(Waiting))
    /\ UNCHANGED <<tree, heap, opts, res, err, filterVars, mdns, crashed>>

\* the bind of the HTTP server fails: the server emits 'error', nothing
\* listens to it, and the process ends on the uncaught exception
HttpBindFails ==
    /\ Alive
    /\ http.state = "lookup"
    /\ http' = [http EXCEPT !.state = "idle"]
    /\ crashed' = TRUE
    /\ log' = Append(log, "http.error")
    /\ UNCHANGED <<tree, heap, opts, res, err, filterVars, calls, udp, mdns, prime>>

\* the UDP socket of a node-osc server is bound
UdpListening(k) ==
    /\ Alive
    /\ udp[k].state = "binding"
    /\ udp' = [udp EXCEPT ![k].state = "open"]
    /\ UNCHANGED <<tree, heap, opts, res, err, filterVars, calls, http, mdns,
                   prime, log, crashed>>

\* the bind of the UDP socket fails: the 'error' listener of setupOSCServer
\* logs the error
UdpBindFails(k) ==
    /\ Alive
    /\ udp[k].state = "binding"
    /\ udp' = [udp EXCEPT ![k].state = "failed"]
    /\ log' = Append(log, "udp.error")
    /\ UNCHANGED <<tree, heap, opts, res, err, filterVars, calls, http, mdns,
                   prime, crashed>>

\* vrchat.stop() up to its await: this.oscServer.close(), unpublishAll() of
\* the bonjour instance of Main.js, then OSCQueryServer.stop() with
\* this._server.close(cb), this._bonjourService.stop() and
\* this._bonjour.destroy().  close() of a socket closed before throws;
\* stop() of the service or destroy() may throw (stopThrows, destroyThrows).
\* An exception ends in the catch of stop, which logs it and returns.
StopCalled(stopThrows, destroyThrows) ==
    /\ Alive
    /\ Len(calls) < MaxCalls
    /\ LET closeThrows == udp # <<>> /\ udp[Len(udp)].state = "closed"
           serviceThrows == mdns.service # "null" /\ stopThrows
           threw == closeThrows \/ serviceThrows \/ destroyThrows
       IN  /\ udp' = IF udp # <<>> /\ ~closeThrows
                     THEN [udp EXCEPT ![Len(udp)].state = "closed"]
                     ELSE udp
           /\ http' = IF closeThrows THEN http
                      ELSE [http EXCEPT !.state = IF @ = "listening" THEN "idle" ELSE @]
           /\ mdns' =
                  IF closeThrows \/ serviceThrows THEN mdns
                  ELSE LET m == IF mdns.service = "published"
                                THEN [mdns EXCEPT !.service = "stopped",
                                                  !.records = @ - 1]
                                ELSE mdns
                       IN  IF destroyThrows THEN m
                           ELSE [m EXCEPT !.destroyed = TRUE, !.records = 0]
           /\ calls' = Append(calls,
                  [op |-> "stop", at |-> Phase(calls),
                   pc |-> IF threw THEN "returned" ELSE "awaitClose",
                   caught |-> threw,
                   mdnsError |-> ~closeThrows /\ (serviceThrows \/ destroyThrows),
                   notRunning |-> http.state # "listening"])
           /\ log' = log
                  \o (IF udp # <<>> /\ ~closeThrows THEN <<"udp.close">> ELSE <<>>)
                  \o (IF closeThrows THEN <<>>
                      ELSE <<"bonjour.unpublishAll", "http.close">>
                           \o (IF mdns.service # "null" /\ ~serviceThrows
                               THEN <<"mdns.unpublish">> ELSE <<>>)
                           \o (IF serviceThrows \/ destroyThrows THEN <<>>
                               ELSE <<"mdns.destroy">>))
    /\ UNCHANGED <<tree, heap, opts, res, err, filterVars, prime, crashed>>

\* the callback of close() settles the promise stop() awaits: on 'close',
\* once the server listens no more and no connection is left, or at once
\* with ERR_SERVER_NOT_RUNNING when the server was not listening at the call
StopResumes(i) ==
    /\ Alive
    /\ calls[i].op = "stop"
    /\ calls[i].pc = "awaitClose"
    /\ calls[i].notRunning \/ (http.conns = 0 /\ http.state # "listening")
    /\ calls' = [calls EXCEPT ![i].pc = "returned", ![i].caught = calls[i].notRunning]
    /\ log' = Append(log, "http.closed")
    /\ UNCHANGED <<tree, heap, opts, res, err, filterVars, http, udp, mdns,
                   prime, crashed>>

\* a client opens a connection and holds it
Connect ==
    /\ Alive
    /\ http.state = "listening"
    /\ http.conns = 0
    /\ http' = [http EXCEPT !.conns = 1]
    /\ UNCHANGED <<tree, heap, opts, res, err, filterVars, calls, udp, mdns,
                   prime, log, crashed>>

\* the client ends its connection
Disconnect ==
    /\ Alive
    /\ http.conns = 1
    /\ http' = [http EXCEPT !.conns = 0]
    /\ UNCHANGED <<tree, heap, opts, res, err, filterVars, calls, udp, mdns,
                   prime, log, crashed>>

\* the 2 s timer of start fires: triggerMDNSDiscovery() starts a browse with
\* this.bonjour.find(...) and sets the 1 s timer
TriggerMDNSDiscovery ==
    /\ Alive
    /\ prime.timers > 0
    /\ prime' = [prime EXCEPT !.timers = @ - 1, !.browsers = @ + 1,
                              !.teardowns = @ + 1]
    /\ log' = Append(log, "browse")
    /\ UNCHANGED <<tree, heap, opts, res, err, filterVars, calls, http, udp,
                   mdns, crashed>>

\* the 1 s timer fires: this.bonjour.unpublishAll() withdraws the services
\* this bonjour instance has published, of which there are none; the
\* browser that find() returned was not kept and is not stopped
DiscoveryWindowEnds ==
    /\ Alive
    /\ prime.teardowns > 0
    /\ prime' = [prime EXCEPT !.teardowns = @ - 1]
    /\ log' = Append(log, "prime.unpublishAll")
    /\ UNCHANGED <<tree, heap, opts, res, err, filterVars, calls, http, udp,
                   mdns, crashed>>

\* the addresses of the datagrams that arrive while the server runs
LifeAddresses == {"/chatbox/input"}

\* a datagram arrives on the open socket k: the node-osc server emits
\* 'message' and the callback of setupOSCServer filters and handles it
Datagram(k, address) ==
    /\ Alive
    /\ udp[k].state = "open"
    /\ Message(address)

NextLifecycle ==
    \/ \E joins \in BOOLEAN, publishThrows \in BOOLEAN :
           StartCalled(joins, publishThrows)
    \/ HttpListening
    \/ HttpBindFails
    \/ \E k \in DOMAIN udp : UdpListening(k)
    \/ \E k \in DOMAIN udp : UdpBindFails(k)
    \/ \E stopThrows \in BOOLEAN, destroyThrows \in BOOLEAN :
           StopCalled(stopThrows, destroyThrows)
    \/ \E i \in DOMAIN calls : StopResumes(i)
    \/ Connect
    \/ Disconnect
    \/ \E k \in DOMAIN udp, address \in LifeAddresses : Datagram(k, address)
    \/ TriggerMDNSDiscovery
    \/ DiscoveryWindowEnds

SpecLifecycle == Init /\ [][NextLifecycle]_vars

(***************************  what a client observes  **********************)

\* the request target that names the node at p
Target(p) == IF p = <<>> THEN <<"", "">> ELSE <<"">> \o p

\* GET of path with selector q ("" for none)
Get(path, q) ==
    [method |-> "GET",
     url |-> [path |-> path, search |-> IF q = "" THEN <<>> ELSE <<"?", q>>]]

\* the string a split path stands for
RECURSIVE join(_)
join(s) == IF Len(s) = 1 THEN s[1] ELSE s[1] \o "/" \o join(Tail(s))

\* the API paths that are '/'-separated sequences of non-empty names
NamedPaths ==
    {p \in ApiPaths : Len(p) >= 2 /\ p[1] = "" /\ \A i \in 2..Len(p) : p[i] # ""}

\* GET p without selector answers 200 with FULL_PATH p
Served(t, h, o, p) ==
    LET r == httpHandler(t, h, o, Get(p, ""))
    IN  /\ ~r.threw
        /\ r.status = 200
        /\ r.body.t = "obj"
        /\ Prop(r.body.v, "FULL_PATH") = Str(join(p))

\* the access of a node: the one set, NO_VALUE for a container without one
accessOf(t, p) ==
    IF t[p].access # JSUndefined THEN t[p].access
    ELSE IF isContainer(t, p) THEN Num(NO_VALUE) ELSE JSUndefined

\* the arguments of a node, none when it has no argument list
argumentsAt(t, h, p) == IF t[p].args = 0 THEN <<>> ELSE argsOf(t, h, p)

\* one entry per argument: the stored value, null for a slot without one
ValueList(t, h, p) ==
    [i \in 1..Len(argumentsAt(t, h, p)) |->
        IF argumentsAt(t, h, p)[i].value = JSUndefined THEN JSNull
        ELSE argumentsAt(t, h, p)[i].value]

\* every argument's entry for field (value, range, clipmode) is null or absent
EveryEntryNull(t, h, p, field) ==
    \A i \in 1..Len(argumentsAt(t, h, p)) :
        argumentsAt(t, h, p)[i][field] \in {JSUndefined, JSNull}

\* some slot holds a value; a stored null reads as no value, as the omission
\* of all-null lists requires
HoldsValue(t, h, p) == ~EveryEntryNull(t, h, p, "value")

\* some segment of the path has no matching child
Unresolved(t, path) ==
    \E i \in 1..Len(path_split(path)) :
        SubSeq(path_split(path), 1, i) \notin DOMAIN t

HostInfoKeys == {"NAME", "EXTENSIONS", "OSC_IP", "OSC_PORT", "OSC_TRANSPORT"}

SevenFlags ==
    Obj([k \in {"ACCESS", "VALUE", "RANGE", "DESCRIPTION", "TAGS", "CRITICAL",
                "CLIPMODE"} |-> Bool(TRUE)])

(***************************  properties  **********************************)

\* C1: for every path p of non-empty segment names and every method spec,
\* once addMethod(p, spec) has been called, and for as long as no
\* removeMethod is called, GET p without selector returns 200 with a body
\* whose FULL_PATH is p.
C1_AddedMethodIsServed ==
    [][\A p \in NamedPaths :
         /\ (\E params \in Params : AddMethod(p, params))
                => Served(tree', heap', opts', p)
         /\ (Served(tree, heap, opts, p) /\ ~(\E q \in ApiPaths : RemoveMethod(q)))
                => Served(tree', heap', opts', p)]_vars

\* C2: whatever the method, path and selector and whatever the tree, the
\* handler produces one response with status 200, 204, 400 or 404 and no
\* error leaves the handler.
C2_HandlerAlwaysResponds ==
    res.pending => ~res.threw /\ res.status \in {200, 204, 400, 404}

\* C3: for a path that resolves to a node, GET ?VALUE returns 204 exactly
\* when the node's access is NO_VALUE or WRITEONLY, and otherwise 200 with a
\* VALUE list of one entry per argument, null for a slot without a value.
C3_ValueSelector ==
    \A p \in DOMAIN tree :
        (res.pending /\ res.req = Get(Target(p), "VALUE")) =>
            /\ ~res.threw
            /\ (res.status = 204) <=>
                   (accessOf(tree, p) \in {Num(NO_VALUE), Num(WRITEONLY)})
            /\ res.status # 204 =>
                   /\ res.status = 200
                   /\ res.body.t = "obj"
                   /\ Prop(res.body.v, "VALUE") = Arr(ValueList(tree, heap, p))

\* C4: a 200 response to a GET with a valid selector (not HOST_INFO) whose
\* attribute the full serialization of the node does not emit is an object
\* that has the selector as a key, with the value null.
C4_MissingAttributeIsNull ==
    \A p \in DOMAIN tree, q \in VALID_ATTRIBUTES \ {"HOST_INFO"} :
        (/\ res.pending
         /\ res.req = Get(Target(p), q)
         /\ q \notin DOMAIN serialize(tree, heap, p).v
         /\ ~res.threw
         /\ res.status = 200) =>
            /\ res.body.t = "obj"
            /\ q \in DOMAIN res.body.v
            /\ res.body.v[q] = JSNull

\* C5: a GET without selector, or with a valid selector other than
\* HOST_INFO, for a path with a segment that has no matching child returns
\* 404 with an empty body and leaves the tree as it was.
C5_MissingChildIs404 ==
    [][\A path \in Targets, q \in {""} \cup (VALID_ATTRIBUTES \ {"HOST_INFO"}) :
         (HttpRequest(Get(path, q)) /\ Unresolved(tree, path)) =>
             /\ ~res'.threw
             /\ res'.status = 404
             /\ res'.body = NoBody
             /\ tree' = tree
             /\ heap' = heap]_vars

\* C6: a request whose method is not GET returns 400, and a GET with a
\* non-empty selector outside the selector set returns 400, both with an
\* empty body and whatever the path.
C6_BadMethodOrSelectorIs400 ==
    res.pending =>
        /\ res.req.method # "GET" =>
               ~res.threw /\ res.status = 400 /\ res.body = NoBody
        /\ (/\ res.req.method = "GET"
            /\ res.req.url.search # <<>>
            /\ res.req.url.search[2] \notin VALID_ATTRIBUTES) =>
               ~res.threw /\ res.status = 400 /\ res.body = NoBody

\* C7: a GET with selector HOST_INFO returns 200 with the object of NAME,
\* EXTENSIONS (seven flags, all true), OSC_IP, OSC_PORT and OSC_TRANSPORT
\* whatever the path, and OSC_TRANSPORT is "UDP" when none is configured.
C7_HostInfo ==
    (/\ res.pending
     /\ res.req.method = "GET"
     /\ res.req.url.search = <<"?", "HOST_INFO">>) =>
        /\ ~res.threw
        /\ res.status = 200
        /\ res.body.t = "obj"
        /\ DOMAIN res.body.v = HostInfoKeys
        /\ res.body.v["EXTENSIONS"] = SevenFlags
        /\ opts.oscTransport = JSUndefined =>
               res.body.v["OSC_TRANSPORT"] = Str("UDP")

\* C8: the full response of a node has no RANGE key when every argument's
\* range is null or absent, no CLIPMODE key when every clipmode is, and no
\* VALUE key when every value is; a method with zero arguments has none of
\* the three.
C8_AllNullKeysAbsent ==
    \A p \in DOMAIN tree :
        (res.pending /\ res.req = Get(Target(p), "")) =>
            /\ ~res.threw /\ res.status = 200 /\ res.body.t = "obj"
            /\ EveryEntryNull(tree, heap, p, "range") =>
                   "RANGE" \notin DOMAIN res.body.v
            /\ EveryEntryNull(tree, heap, p, "clipmode") =>
                   "CLIPMODE" \notin DOMAIN res.body.v
            /\ EveryEntryNull(tree, heap, p, "value") =>
                   "VALUE" \notin DOMAIN res.body.v

\* a READONLY method at /a/b whose first slot stores null and whose
\* arguments have no range and no clipmode is served without the three keys
C8_Witness ==
    /\ res.pending
    /\ res.req = Get(<<"", "a", "b">>, "")
    /\ <<"a", "b">> \in DOMAIN tree
    /\ tree[<<"a", "b">>].access = Num(READONLY)
    /\ Len(argumentsAt(tree, heap, <<"a", "b">>)) = 2
    /\ argumentsAt(tree, heap, <<"a", "b">>)[1].value = JSNull
    /\ res.status = 200
    /\ {"RANGE", "CLIPMODE", "VALUE"} \cap DOMAIN res.body.v = {}

C10_SetValueIsServed ==
    [][\A path \in ApiPaths, i \in Indices :
         LET w == getNodeForPath(tree, path)
             p == w.node.path
             r == httpHandler(tree', heap', opts', Get(Target(p), ""))
         IN  (/\ w.found /\ ~w.threw /\ ~w.node.foreign
              /\ i >= 0 /\ i < Len(argumentsAt(tree, heap, p))
              /\ tree[p].access \in {Num(READONLY), Num(READWRITE)}) =>
                 /\ \A v \in Values :
                        SetValue(path, i, v) =>
                            /\ ~r.threw /\ r.status = 200
                            /\ "VALUE" \in DOMAIN r.body.v
                            /\ r.body.v["VALUE"].v[i + 1] = v
                            /\ \A j \in 1..Len(argumentsAt(tree, heap, p)) \ {i + 1} :
                                   r.body.v["VALUE"].v[j] = ValueList(tree, heap, p)[j]
                 /\ UnsetValue(path, i) =>
                        /\ ~r.threw /\ r.status = 200
                        /\ IF "VALUE" \in DOMAIN r.body.v
                           THEN r.body.v["VALUE"].v[i + 1] = JSNull
                           ELSE ~HoldsValue(tree', heap', p)]_vars

\* the path resolves to a node of the tree
Resolves(t, path) == path_split(path) \in DOMAIN t

\* C11: setValue and unsetValue fail with the index-out-of-range error when
\* the path resolves to a node without slot i (no arguments, i at or beyond
\* the argument count, or i negative) and leave the tree as it was; when the
\* path does not resolve they return without error and change nothing.
C11_ValueOpsOnMissingSlot ==
    [][\A path \in ApiPaths, i \in Indices :
         ((\E v \in Values : SetValue(path, i, v)) \/ UnsetValue(path, i)) =>
             /\ (/\ Resolves(tree, path)
                 /\ (i < 0 \/ i >= Len(argumentsAt(tree, heap, path_split(path))))) =>
                    err' = IndexError /\ tree' = tree /\ heap' = heap
             /\ ~Resolves(tree, path) =>
                    err' = "none" /\ tree' = tree /\ heap' = heap]_vars

\* C12: getValue returns the stored value when the slot exists and holds
\* one, and otherwise reports absence (null or undefined) without raising,
\* for every index, negative and out-of-range ones included, and for nodes
\* without arguments.
C12_GetValueNeverFails ==
    \A p \in DOMAIN tree, i \in Indices :
        LET g == nodeGetValue(tree, heap, p, i)
            args == argumentsAt(tree, heap, p)
        IN  /\ ~g.threw
            /\ IF i >= 0 /\ i < Len(args) /\ args[i + 1].value # JSUndefined
               THEN g.value = args[i + 1].value
               ELSE g.value \in {JSNull, JSUndefined}

\* the nodes strictly below q
Descendants(t, q) ==
    {d \in DOMAIN t : Len(d) > Len(q) /\ SubSeq(d, 1, Len(q)) = q}

\* the nodes on the path from the root to p, the root left out
OnPath(p) == {SubSeq(p, 1, k) : k \in 1..Len(p)}

\* removeMethod(path) runs to its end on a method, a node with arguments
RemovesMethod(path) ==
    /\ RemoveMethod(path)
    /\ Resolves(tree, path)
    /\ tree[path_split(path)].args # 0
    /\ err' = "none"

C14_OneRoot ==
    /\ <<>> \in DOMAIN tree
    /\ \A p \in DOMAIN tree \ {<<>>} :
           /\ p[Len(p)] # ""
           /\ SubSeq(p, 1, Len(p) - 1) \in DOMAIN tree
    /\ assembleFullPath(<<>>) = ""
    /\ LET r == httpHandler(tree, heap, opts, Get(<<"", "">>, ""))
       IN  /\ ~r.threw
           /\ r.status = 200
           /\ r.body.t = "obj"
           /\ Prop(r.body.v, "FULL_PATH") = Str("/")

\* addMethod("/") or addMethod("") has given the root arguments, and the
\* GET / in flight is answered 200 with FULL_PATH "/"
C14_Witness ==
    /\ tree[<<>>].args # 0
    /\ res.pending
    /\ res.req = Get(<<"", "">>, "")
    /\ ~res.threw
    /\ res.status = 200
    /\ Prop(res.body.v, "FULL_PATH") = Str("/")

\* the nodes that are neither p nor above p: those below p and those beside
\* the path to p
OffPath(t, p) == {q \in DOMAIN t : Len(q) > Len(p) \/ SubSeq(p, 1, Len(q)) # q}

\* C15: addMethod(p, spec) on a path that resolves changes only the options
\* and arguments of the node at p: no node is created or removed, p keeps
\* its children, and every node below p or beside the path to p serializes
\* as before.
C15_AddMethodFrame ==
    [][\A path \in FramePaths, params \in ParamsIn(tree, FrameParams) :
         (AddMethod(path, params) /\ Resolves(tree, path) /\ err' = "none") =>
             LET p == path_split(path)
             IN  /\ DOMAIN tree' = DOMAIN tree
                 /\ childNames(tree', p) = childNames(tree, p)
                 /\ \A q \in OffPath(tree, p) :
                        serialize(tree', heap', q) = serialize(tree, heap, q)
                 /\ \A q \in DOMAIN tree \ {p} :
                        /\ tree'[q].description = tree[q].description
                        /\ tree'[q].access = tree[q].access
                        /\ argumentsAt(tree', heap', q) = argumentsAt(tree, heap, q)]_vars

\* /a is a method with a child /a/b and a sibling /b that both hold a value,
\* and addMethod("/a", AvatarParameters) replaces the options of /a alone
C15_Witness ==
    /\ Idle
    /\ {<<"a">>, <<"b">>, <<"a", "b">>} \subseteq DOMAIN tree
    /\ tree[<<"a">>].args # 0
    /\ HoldsValue(tree, heap, <<"b">>)
    /\ HoldsValue(tree, heap, <<"a", "b">>)
    /\ LET out == addMethod(tree, heap, <<"", "a">>, AvatarParameters)
       IN  /\ out.err = "none"
           /\ out.tree[<<"a">>] # tree[<<"a">>]
           /\ childNames(out.tree, <<"a">>) = {"b"}

\* the text right of the first '(!?' of a pattern, up to the next ')'
ExcludedText(pattern) ==
    LET right == SubSeq(pattern, indexOf(pattern, "(!?") + 4, Len(pattern))
    IN  IF includes(right, ")") THEN SubSeq(right, 1, indexOf(right, ")"))
        ELSE right

\* the three pattern rules: exact, prefix wildcard, negative substring
Exact(address, pattern) == pattern = address

PrefixWildcard(address, pattern) ==
    /\ endsWith(pattern, "*")
    /\ startsWith(address, SubSeq(pattern, 1, Len(pattern) - 1))

NegativeSubstring(address, pattern) ==
    /\ includes(pattern, "(!?")
    /\ startsWith(address, SubSeq(pattern, 1, indexOf(pattern, "(!?")))
    /\ ~includes(address, ExcludedText(pattern))

Matches(address, pattern) ==
    \/ Exact(address, pattern)
    \/ PrefixWildcard(address, pattern)
    \/ NegativeSubstring(address, pattern)

\* C16: the handler runs for an inbound message with address a exactly when
\* accept-all is enabled or some subscribed pattern matches a by the exact,
\* prefix-wildcard or negative-substring rule; it does not run otherwise.
C16_DeliveredIffMatched ==
    [][\A a \in Addresses :
         Message(a) =>
             (handled'.called <=>
                 (subscribeToAll \/ \E p \in subscribedPaths : Matches(a, p)))]_vars

\* the wildcard and the negative-substring pattern of one base
Wildcard == "/avatar/parameters/*"

Negative == "/avatar/parameters/(!?vrcft)"

UnderBase == {a \in Addresses : startsWith(a, "/avatar/parameters/")}

SubscribeAll == IF build = "Main.js" THEN SubscribeToAllPaths ELSE SubscribeToAll

\* C18: subscribe(p) disables accept-all and adds p; unsubscribe(p) removes p
\* and leaves accept-all enabled exactly when the set is then empty; the
\* subscribe-all operation returns, and leaves the set empty and accept-all
\* enabled.
C18_FilterMutations ==
    [][/\ \A p \in Patterns :
            Subscribe(p) =>
                ~subscribeToAll' /\ subscribedPaths' = subscribedPaths \cup {p}
       /\ \A p \in Patterns :
            Unsubscribe(p) =>
                /\ subscribedPaths' = subscribedPaths \ {p}
                /\ subscribeToAll' <=> subscribedPaths' = {}
       /\ SubscribeAll =>
                err' = "none" /\ subscribedPaths' = {} /\ subscribeToAll']_vars

\* C19: after subscribeToAllPaths(), which leaves accept-all enabled and the
\* set empty, unsubscribe('/input/*') excludes the messages whose address
\* starts with '/input/' and lets every other message through.
C19_UnsubscribeExcludes ==
    (subscribeToAll /\ subscribedPaths = {}) =>
        LET f == unsubscribe(subscribeToAll, subscribedPaths, "/input/*")
        IN  \A a \in Addresses :
                shouldProcessMessage(f.subscribeToAll, f.subscribedPaths, a)
                    <=> ~startsWith(a, "/input/")

\* the patterns of the negative-substring shape
NegativePatterns == {p \in Patterns : includes(p, "(!?")}

\* C20: for a pattern that contains '(!?', basePattern is the text left of
\* the first '(!?' and excludePattern the text right of it up to the next
\* ')', and the pattern matches an address exactly when the address starts
\* with basePattern and does not contain excludePattern; this holds with
\* text after the ')' too.
C20_NegativePattern ==
    \A p \in subscribedPaths \cap NegativePatterns :
        /\ basePattern(p) = SubSeq(p, 1, indexOf(p, "(!?"))
        /\ excludePattern(p) = ExcludedText(p)
        /\ \A a \in Addresses :
               pathMatches(a, p) <=>
                   (startsWith(a, basePattern(p)) /\ ~includes(a, ExcludedText(p)))

\* C30: after every addMethod or removeMethod call that has returned, no node
\* of the tree other than the root is empty, that is, without arguments and
\* without children.
C30_NoEmptyNodeIsLeft ==
    [][\A path \in ApiPaths :
         (/\ \/ \E params \in ParamsIn(tree, Params) : AddMethod(path, params)
             \/ RemoveMethod(path)
          /\ err' = "none") =>
             \A p \in DOMAIN tree' \ {<<>>} : ~isEmpty(tree', p)]_vars

\* the response part of an exchange
ResponseOf(r) == [k \in DOMAIN r \ {"pending", "req"} |-> r[k]]

Before(e1, e2) ==
    \A j \in DOMAIN log : log[j] = e2 => \E i \in 1..(j - 1) : log[i] = e1

\* C21: in start the endpoints are registered, then the HTTP listener is
\* started, then the UDP listener, then the mDNS record is published, then
\* the discovery prime is scheduled; the mDNS record is never published
\* before the UDP listener has been started.
C21_StartOrder ==
    /\ Before("register", "http.listen")
    /\ Before("http.listen", "udp.listen")
    /\ Before("udp.listen", "mdns.publish")
    /\ Before("mdns.publish", "prime.scheduled")

\* the place of a step of stop in the order the claim gives
Rank(e) ==
    CASE e = "udp.close" -> 1
      [] e = "bonjour.unpublishAll" -> 2
      [] e = "mdns.unpublish" -> 3
      [] e = "mdns.destroy" -> 4
      [] e = "http.close" -> 5
      [] e = "http.closed" -> 6
      [] OTHER -> 0

\* entries j - 1 and j of the log are steps of one call of stop: stop logs
\* its steps up to the await without a gap, and begins with the close of
\* the socket or, without a socket, with unpublishAll
SameStop(j) ==
    /\ Rank(log[j - 1]) \in 1..5
    /\ Rank(log[j]) \in 1..5
    /\ log[j] # "udp.close"
    /\ log[j] = "bonjour.unpublishAll" => log[j - 1] = "udp.close"

\* C22: in stop the UDP socket is closed, then the mDNS record is
\* unpublished, then the mDNS handle is destroyed, and then the close of the
\* HTTP server is performed and awaited: of two steps of one stop the later
\* one has the later place in this order.
C22_StopOrder ==
    /\ \A j \in DOMAIN log \ {1} : SameStop(j) => Rank(log[j - 1]) < Rank(log[j])
    /\ Before("http.close", "http.closed")

\* C23: a call of start made while the server is Starting, Running or
\* Stopping is rejected and has no effect: it registers no endpoint again,
\* binds no second listener, schedules no further prime and publishes no
\* mDNS record, so that at most one record is ever published.
C23_StartRejectedWhileBusy ==
    [][\A joins \in BOOLEAN, publishThrows \in BOOLEAN :
         (/\ Phase(calls) \in {"Starting", "Running", "Stopping"}
          /\ StartCalled(joins, publishThrows)) =>
              /\ calls'[Len(calls')].caught
              /\ log' = log
              /\ tree' = tree /\ http' = http /\ udp' = udp /\ prime' = prime
              /\ mdns' = mdns
              /\ mdns'.published <= 1]_vars

\* the i-th call is a stop made while a start was under way, it has
\* completed, and no start was called after it
StoppedWhileStarting(i) ==
    /\ calls[i].op = "stop"
    /\ calls[i].at = "Starting"
    /\ calls[i].pc = "returned"
    /\ \A j \in DOMAIN calls : j > i => calls[j].op # "start"

\* C24: a stop called while the server is Starting waits for Running or
\* aborts what is left of start: once that stop has completed, no step of
\* the start takes effect, neither the creation of the UDP listener nor
\* the scheduling of the discovery prime.
C24_NoStartStepAfterStop ==
    [][(\E i \in DOMAIN calls : StoppedWhileStarting(i)) =>
           /\ Len(udp') <= Len(udp)
           /\ prime'.timers <= prime.timers]_vars

\* the i-th call is a start that ended in an error
StartFailed(i) ==
    /\ calls[i].op = "start"
    /\ calls[i].pc = "returned"
    /\ calls[i].caught

\* C25: a bind that fails during start, of the HTTP listener or of the UDP
\* listener, is surfaced to the caller of start as a failure: the start that
\* created the UDP socket has failed when its bind has, and some start has
\* failed when the bind of the HTTP server has.
C25_BindFailureFailsStart ==
    /\ \A k \in DOMAIN udp : udp[k].state = "failed" => StartFailed(udp[k].by)
    /\ (\E j \in DOMAIN log : log[j] = "http.error") =>
           \E i \in DOMAIN calls : StartFailed(i)

\* C26: an error of the mDNS publish in start, or of the unpublish or the
\* destroy in stop, does not make start or stop fail: such a start still
\* brings up the HTTP listener and the UDP listener, and such a stop still
\* closes the UDP socket and the HTTP server.
C26_MdnsErrorsAreTolerated ==
    \A i \in DOMAIN calls :
        (calls[i].mdnsError /\ calls[i].pc = "returned") =>
            IF calls[i].op = "start"
            THEN /\ ~calls[i].caught
                 /\ \E k \in DOMAIN udp : udp[k].by = i
            ELSE /\ udp # <<>> => udp[Len(udp)].state = "closed"
                 /\ \E j \in DOMAIN log : log[j] = "http.close"

\* C27: every call of stop completes, because stop closes the listeners
\* forcibly: a stop that waits for the close of the HTTP server waits on no
\* connection a client still holds.
C27_StopWaitsOnNoClient ==
    \A i \in DOMAIN calls :
        (/\ calls[i].op = "stop"
         /\ calls[i].pc = "awaitClose"
         /\ ~calls[i].notRunning) => http.conns = 0

\* C28: the browse of the discovery prime is started only after the HTTP
\* server is listening, and it is torn down when its window ends: a browse
\* is running only while the timer that ends its window is still to fire.
C28_BrowseEndsWithWindow ==
    /\ Before("http.listening", "browse")
    /\ prime.browsers <= prime.teardowns

\* C31: a method is a leaf: in every reachable state no node has both
\* arguments and a child, and no serialized node carries both TYPE and
\* CONTENTS.
C31_MethodIsLeaf ==
    \A p \in DOMAIN tree :
        /\ ~(tree[p].args # 0 /\ childNames(tree, p) # {})
        /\ ~({"TYPE", "CONTENTS"} \subseteq DOMAIN serialize(tree, heap, p).v)

\* the type code of an argument: the code itself, or for a list of types
\* the codes of its members between brackets
RECURSIVE TypeCode(_)
TypeCode(type) ==
    IF type.t = "str" THEN type.v
    ELSE "[" \o concat([i \in 1..Len(type.v) |-> TypeCode(type.v[i])]) \o "]"

Absent(x) == x \in {JSUndefined, JSNull}

\* list is an array with one entry for each of the arguments a, null where
\* the argument has no field, and not null where it has one
OnePerArgument(list, a, field) ==
    /\ list.t = "arr"
    /\ Len(list.v) = Len(a)
    /\ \A i \in 1..Len(a) : (list.v[i] = JSNull) <=> Absent(a[i][field])

\* C32: the TYPE of a method is the concatenation, in argument order, of the
\* type codes of its arguments, a nested list of types being rendered between
\* brackets; RANGE, CLIPMODE and VALUE, when emitted, have one entry for each
\* argument in argument order, null for an argument without the field, and
\* CLIPMODE and VALUE carry the stored clip mode and value at the others.
C32_TypeAndListsFollowArguments ==
    \A p \in DOMAIN tree :
        tree[p].args # 0 =>
            LET a == argsOf(tree, heap, p)
                s == serialize(tree, heap, p).v
            IN  /\ s["TYPE"] = Str(concat([i \in 1..Len(a) |-> TypeCode(a[i].type)]))
                /\ "RANGE" \in DOMAIN s => OnePerArgument(s["RANGE"], a, "range")
                /\ "CLIPMODE" \in DOMAIN s =>
                       /\ OnePerArgument(s["CLIPMODE"], a, "clipmode")
                       /\ \A i \in 1..Len(a) :
                              ~Absent(a[i].clipmode) => s["CLIPMODE"].v[i] = a[i].clipmode
                /\ "VALUE" \in DOMAIN s =>
                       /\ OnePerArgument(s["VALUE"], a, "value")
                       /\ \A i \in 1..Len(a) :
                              ~Absent(a[i].value) => s["VALUE"].v[i] = a[i].value

\* a method with a nested type list, a value in its first slot only and a
\* range and a clip mode for its first argument only
C32_Witness ==
    \E p \in DOMAIN tree :
        /\ tree[p].args # 0
        /\ LET s == serialize(tree, heap, p).v
           IN  /\ s["TYPE"] = Str("f[i[fs]]")
               /\ "VALUE" \in DOMAIN s /\ s["VALUE"] = Arr(<<Num(1), JSNull>>)
               /\ "RANGE" \in DOMAIN s /\ s["RANGE"].v[2] = JSNull
               /\ "CLIPMODE" \in DOMAIN s /\ s["CLIPMODE"] = Arr(<<Str("both"), JSNull>>)

\* accept-all is on in the filter f exactly when it holds no pattern
AcceptAllIffEmpty(f) == f.subscribeToAll <=> f.subscribedPaths = {}

\* C33: in every state reachable through subscribe, unsubscribe and the
\* subscribe-all operation, accept-all is enabled if and only if the set of
\* subscribed patterns is empty, and each of the three operations leaves
\* the filter so.
C33_AcceptAllIffNoPattern ==
    /\ AcceptAllIffEmpty(Filter(subscribeToAll, subscribedPaths))
    /\ \A path \in Patterns :
           /\ AcceptAllIffEmpty(subscribe(subscribeToAll, subscribedPaths, path))
           /\ AcceptAllIffEmpty(unsubscribe(subscribeToAll, subscribedPaths, path))
    /\ AcceptAllIffEmpty(subscribeToAllPaths(subscribeToAll, subscribedPaths))

\* a filter with one pattern after calls that returned: accept-all is off,
\* and unsubscribing the pattern empties the set and turns it on again
C33_Witness ==
    /\ err = "none"
    /\ ~subscribeToAll
    /\ \E path \in Patterns :
           /\ subscribedPaths = {path}
           /\ unsubscribe(subscribeToAll, subscribedPaths, path) = Filter(TRUE, {})

\* segment names, one of them the name of a built-in property of objects
SegmentNames == {"a", "b", "constructor"}

\* C34: for every segment name, the names of built-in properties of objects
\* included, hasChild(name) is true if and only if a child of that name was
\* created under the node and not removed since, and getOrCreateChild(name)
\* returns a node of the tree whose name is the segment and whose parent is
\* the node.
C34_ChildrenAreOwnNodes ==
    \A p \in DOMAIN tree, name \in SegmentNames :
        /\ hasChild(tree, p, name) <=> Append(p, name) \in DOMAIN tree
        /\ getOrCreateChild(tree, p, name).node = NodeRef(Append(p, name))

\* the node at q carries a description: an addMethod gave it, and no
\* removeMethod of q has cleared it since
Registered(t, q) == Truthy(t[q].description)

\* the options and the arguments of the node at q are the same in both trees
SameMetadata(t1, h1, t2, h2, q) ==
    /\ t2[q].description = t1[q].description
    /\ t2[q].access = t1[q].access
    /\ t2[q].tags = t1[q].tags
    /\ t2[q].critical = t1[q].critical
    /\ (t2[q].args = 0) = (t1[q].args = 0)
    /\ argumentsAt(t2, h2, q) = argumentsAt(t1, h1, q)

\* C35: removeMethod(p) takes from the tree only the node at p and the
\* ancestors that were created implicitly: every other node that an
\* addMethod registered, one registered with a description and no arguments
\* included, is still served with 200 and has its metadata unchanged.
C35_RemoveMethodKeepsRegistered ==
    [][\A path \in FramePaths :
         (RemoveMethod(path) /\ err' = "none") =>
             \A q \in DOMAIN tree \ {path_split(path)} :
                 Registered(tree, q) =>
                     /\ q \in DOMAIN tree'
                     /\ Served(tree', heap', opts', Target(q))
                     /\ SameMetadata(tree, heap, tree', heap', q)]_vars

\* the arguments of the node at p differ in the two trees in nothing but
\* the value of slot i
OnlySlotChanged(t1, h1, t2, h2, p, i) ==
    LET a1 == argumentsAt(t1, h1, p)
        a2 == argumentsAt(t2, h2, p)
    IN  /\ t2[p] = t1[p]
        /\ Len(a2) = Len(a1)
        /\ \A k \in 1..Len(a1) :
               /\ a2[k].type = a1[k].type
               /\ a2[k].range = a1[k].range
               /\ a2[k].clipmode = a1[k].clipmode
               /\ k # i + 1 => a2[k].value = a1[k].value

\* C36: setValue(p, i, v) and unsetValue(p, i) change only the value slot i
\* of the node at p: every other node keeps its options, its arguments and
\* their values, and the node at p keeps every other slot and attribute,
\* also when one arguments list was passed to addMethod for several paths.
C36_ValueOpsFrame ==
    [][\A path \in FramePaths, i \in FrameIndices :
         (/\ SetValue(path, i, Num(1)) \/ UnsetValue(path, i)
          /\ Resolves(tree, path)
          /\ err' = "none") =>
             LET p == path_split(path)
             IN  /\ DOMAIN tree' = DOMAIN tree
                 /\ OnlySlotChanged(tree, heap, tree', heap', p, i)
                 /\ \A q \in DOMAIN tree \ {p} :
                        SameMetadata(tree, heap, tree', heap', q)]_vars

\* a stop has completed and no start was called after it
StopCompleted ==
    \E i \in DOMAIN calls :
        /\ calls[i].op = "stop"
        /\ calls[i].pc = "returned"
        /\ \A j \in DOMAIN calls : j > i => calls[j].op # "start"

\* C37: once stop has completed, no UDP listener of the instance is open,
\* no OSC message is handed to the message handler and no discovery browse
\* is started, whatever the interleaving of start, stop, the timer of the
\* prime and the datagrams.
C37_QuietAfterStop ==
    /\ [](StopCompleted => \A k \in DOMAIN udp : udp[k].state \notin {"binding", "open"})
    /\ [][StopCompleted =>
              /\ handled' = handled
              /\ prime'.browsers <= prime.browsers]_vars

\* C38: the HostInfo that start returns and the body of every later GET
\* with selector HOST_INFO carry the same name, OSC IP, OSC port and
\* transport, and the OSC port they advertise is the UDP port of the OSC
\* receiver, the configured oscPort when there is one, and never the HTTP
\* port, whether or not oscPort was configured.
C38_HostInfoAgreesAndNamesOscPort ==
    LET info == startHostInfo(opts)
    IN  /\ (/\ res.pending
            /\ res.req.method = "GET"
            /\ res.req.url.search = <<"?", "HOST_INFO">>
            /\ ~res.threw) =>
               /\ res.body.t = "obj"
               /\ Prop(res.body.v, "NAME") = info.name
               /\ Prop(res.body.v, "OSC_IP") = info.oscIp
               /\ Prop(res.body.v, "OSC_PORT") = info.oscPort
               /\ Prop(res.body.v, "OSC_TRANSPORT") = info.oscTransport
        /\ Truthy(opts.oscPort) => info.oscPort = opts.oscPort
        /\ info.oscPort # opts.httpPort

\* the description the root was constructed with
RootDescription == JSOr(opts.rootDescription, Str("root node"))

\* C39: in every state reached through the tree operations the root keeps
\* the description and the NO_VALUE access it was constructed with: GET /
\* reports ACCESS 0 and the configured DESCRIPTION of the root, and
\* GET /?VALUE answers 204.
C39_RootKeepsItsOptions ==
    LET full == httpHandler(tree, heap, opts, Get(<<"", "">>, ""))
        value == httpHandler(tree, heap, opts, Get(<<"", "">>, "VALUE"))
    IN  /\ tree[<<>>].description = RootDescription
        /\ tree[<<>>].access = Num(NO_VALUE)
        /\ ~full.threw /\ full.status = 200
        /\ Prop(full.body.v, "ACCESS") = Num(NO_VALUE)
        /\ Prop(full.body.v, "DESCRIPTION") = RootDescription
        /\ ~value.threw /\ value.status = 204
====
